---------------------------- MODULE Spec2Model ----------------------------
(***************************************************************************)
(* The Azure ScaleSet node-group driver of the cluster autoscaler          *)
(* (cluster-autoscaler/cloudprovider/azure/azure_scale_set.go): one        *)
(* ScaleSet, the process-wide scaleSetStatusCache, the Azure backend the   *)
(* driver calls, and the detached goroutines that wait for its mutations.  *)
(*                                                                         *)
(* Time.  The code only ever compares a stored time.Time with time.Now(),  *)
(* after adding a period to it.  Timestamps are therefore kept relative to *)
(* the current instant: Now is 0, a timestamp t <= 0 is "-t ticks ago",    *)
(* and Tick moves the present one tick on by shifting every stored         *)
(* timestamp one tick back.  A timestamp that is already a full period old *)
(* is not shifted further: the code cannot tell it from an older one (the  *)
(* zero time.Time of a new ScaleSet included).                             *)
(***************************************************************************)
EXTENDS Integers, Sequences, FiniteSets, TLC

VARIABLES
    scaleSet,             \* the ScaleSet struct: curSize, lastSizeRefresh, instanceCache, lastInstanceRefresh
    scaleSetStatusCache,  \* the process-wide struct: lastRefresh, scaleSets (name -> Sku.Capacity)
    futures,              \* the goroutines waiting for a mutation: how many per kind
    observed,             \* history: curSize has been read from the backend or set by a capacity
                          \* update; FALSE while it still derives from the -1 of NewScaleSet
    listed,               \* history: the VMs the last successful listing of Nodes returned
    issued                \* history: <<n, t>> once SetScaleSetSize(n) was issued at t, until another
                          \* mutation is issued, a waiting goroutine invalidates the size cache or
                          \* sizeRefreshPeriod has passed since t; <<>> otherwise

vars == <<scaleSet, scaleSetStatusCache, futures, observed, listed, issued>>

---------------------------------------------------------------------------
(* Bounds of the model. *)

\* SetScaleSetSize's argument and the capacity the backend reports range over
\* 0..MaxCapacity, the delta of IncreaseSize and DecreaseTargetSize over
\* -1..MaxCapacity.
MaxCapacity == 2
\* DeleteInstances and DeleteNodes take at most MaxBatch instances.
MaxBatch == 2
\* At most MaxPending goroutines wait for mutations at a time.
MaxPending == 1
\* DeleteInstances takes curSize at most MaxUnderflow below the -1 of NewScaleSet.
MaxUnderflow == 1
\* The longest VM list whose rebuild into the instance cache is examined.
MaxVMs == 2
\* The ScaleSets that share the group cache, for the order of their locks.
MaxScaleSets == 2

---------------------------------------------------------------------------
(* Configuration and program constants. *)

\* spec.MinSize, spec.MaxSize of the node group.
minSize == 0
maxSize == 1
\* scaleSet.sizeRefreshPeriod (config.VmssCacheTTL, 15 s by default) and
\* vmssInstancesRefreshPeriod, in ticks.  The code compares neither with the
\* other.
sizeRefreshPeriod == 2
vmssInstancesRefreshPeriod == 2

\* scaleSet.Name, and the name of another scale set of the resource group.
Name == "vmss-1"
OtherName == "vmss-2"

\* time.Now(), and the time.Time operations the code uses.
Now == 0
Add(t, d) == t + d
After(t, u) == t > u

Max(a, b) == IF a >= b THEN a ELSE b

---------------------------------------------------------------------------
(* Identifiers.  A resource id is the sequence of its path segments        *)
(* <<resource group, scale set, instance id>>; the empty string is <<>>.   *)
(* A provider id is "azure://" followed by a resource id.                  *)

\* strings.ToLower on the resource group names that occur.
ToLower(str) == IF str = "RG" THEN "rg" ELSE str

\* convertResourceGroupNameToLower: the resource id with its resource group
\* segment lowercased; an error for an id that has no such segment.
convertResourceGroupNameToLower(id) ==
    IF Len(id) < 2
    THEN [err |-> "error", ret |-> <<>>]
    ELSE [err |-> "nil", ret |-> <<ToLower(id[1])>> \o SubSeq(id, 2, Len(id))]

\* getLastSegment: the instance id a provider id ends with.
getLastSegment(providerID) == providerID[Len(providerID)]

\* manager.GetAsgForInstance: the id of the scale set that owns the instance.
GetAsgForInstance(ref) == ref[3]

\* strings.EqualFold on scale set ids (the registered names, all lowercase).
EqualFold(a, b) == ToLower(a) = ToLower(b)

\* The instances requests are about: two of this scale set, one of the other.
InstA == <<"azure://", "rg", Name, "0">>
InstB == <<"azure://", "rg", Name, "1">>
InstC == <<"azure://", "rg", OtherName, "0">>
Instances == {InstA, InstB, InstC}

\* The sequences over S of length at most n.
SeqsUpTo(S, n) == UNION {[1..k -> S] : k \in 0..n}

\* What the backend's VM list of this scale set can be: no VM, VM 0, or VM 0
\* and VM 1, the latter running or being deleted.
ProvisioningStates == {"Succeeded", "Deleting"}
VM(id, st) == [ID |-> <<"RG", Name, id>>, ProvisioningState |-> st]
RawVMLists ==
    {<<>>, <<VM("0", "Succeeded")>>}
    \cup {<<VM("0", "Succeeded"), VM("1", st)>> : st \in ProvisioningStates}

\* What a VM list can hold: a VM whose ID is the empty string or the id of an
\* instance, with any provisioning state or none ("nil").
AllProvisioningStates == {"nil", "Succeeded", "Deleting", "Creating", "Failed"}
VMLists ==
    SeqsUpTo({[ID |-> id, ProvisioningState |-> st] :
                  id \in {<<>>, <<"RG", Name, "0">>, <<"RG", Name, "1">>},
                  st \in AllProvisioningStates},
             MaxVMs)

\* The backend's answers.  To List: the scale sets of the resource group with
\* their capacities (this scale set with any capacity, or not among them), or
\* an error, which isAzureRequestsThrottled tells to be "throttled" or not.  To
\* the VM list: one of RawVMLists, or an error.  To the issue of a mutation and
\* to the wait for it: "ok" or an error.
ListResponses ==
    {[err |-> "nil", ret |-> (Name :> c) @@ (OtherName :> 0)] : c \in 0..MaxCapacity}
    \cup {[err |-> "nil", ret |-> (OtherName :> 0)]}
    \cup {[err |-> e, ret |-> <<>>] : e \in {"throttled", "error"}}
VMListResponses ==
    {[err |-> "nil", ret |-> vms] : vms \in RawVMLists}
    \cup {[err |-> e, ret |-> <<>>] : e \in {"throttled", "error"}}
IssueResponses == {"ok", "error"}
WaitResponses == {"ok", "error"}

isAzureRequestsThrottled(err) == err = "throttled"

---------------------------------------------------------------------------
(* The state the operations work on, as one record w: ss the ScaleSet,     *)
(* cache the scaleSetStatusCache, fut the waiting goroutines, obs the      *)
(* history observed, vms the history listed.  The backend answers a call as it pleases, so an      *)
(* operation yields the set of its possible outcomes [w, err, ret], one    *)
(* for each way the backend can answer the calls it makes.                 *)
(*                                                                         *)
(* The other fields of w are the trace of the running operation: calls the *)
(* backend calls it has made, thr the refreshes that were throttled, held  *)
(* the mutexes it holds, order the pairs <<held, taken>> of a mutex it has *)
(* locked while holding another, under the pairs <<api, mutex>> of a       *)
(* backend call made with the mutex held, unguarded the fields among       *)
(* curSize and lastSizeRefresh that it has read or written without         *)
(* sizeMutex.                                                              *)

\* The trace of an operation that has not begun.
Rest(w) ==
    [w EXCEPT !.calls = <<>>, !.thr = {}, !.held = {}, !.order = {}, !.under = {},
              !.unguarded = {}]

World ==
    [ss |-> scaleSet, cache |-> scaleSetStatusCache, fut |-> futures, obs |-> observed,
     vms |-> listed, calls |-> <<>>, thr |-> {}, held |-> {}, order |-> {}, under |-> {},
     unguarded |-> {}]

\* sync.Mutex.Lock and Unlock by the running operation.
Lock(w, mutex) ==
    [w EXCEPT !.held = @ \cup {mutex}, !.order = @ \cup {<<h, mutex>> : h \in w.held}]

Unlock(w, mutex) == [w EXCEPT !.held = @ \ {mutex}]

\* defer mutex.Unlock(): every outcome ends with the mutex released.
Deferred(outcomes, mutex) == {[r EXCEPT !.w = Unlock(@, mutex)] : r \in outcomes}

\* A read or write of fields of the ScaleSet that sizeMutex guards.
Access(w, fields) ==
    [w EXCEPT !.unguarded = @ \cup (IF "sizeMutex" \in w.held THEN {} ELSE fields)]

Call(w, api, arg) ==
    [w EXCEPT !.calls = Append(@, [api |-> api, arg |-> arg]),
              !.under = @ \cup {<<api, mutex>> : mutex \in w.held}]

\* virtualMachineScaleSetsClient.List, as getAllVMSSInfo calls it.
getAllVMSSInfo(w) ==
    {[w |-> Call(w, "List", <<>>), err |-> resp.err, ret |-> resp.ret] : resp \in ListResponses}

getVMSSInfo(w) ==
    LET w0 == Lock(w, "scaleSetStatusCache.mutex") IN
    Deferred(
        IF /\ After(Add(w0.cache.lastRefresh, sizeRefreshPeriod), Now)
           /\ Name \in DOMAIN w0.cache.scaleSets
        THEN {[w |-> w0, err |-> "nil", ret |-> w0.cache.scaleSets[Name]]}
        ELSE {IF allVMSS.err # "nil"
              THEN [w |-> allVMSS.w, err |-> allVMSS.err, ret |-> -1]
              ELSE LET w1 == [allVMSS.w EXCEPT !.cache = [lastRefresh |-> Now,
                                                           scaleSets |-> allVMSS.ret]]
                   IN  IF Name \notin DOMAIN allVMSS.ret
                       THEN [w |-> w1, err |-> "could not find vmss", ret |-> -1]
                       ELSE [w |-> w1, err |-> "nil", ret |-> allVMSS.ret[Name]]
              : allVMSS \in getAllVMSSInfo(w0)},
        "scaleSetStatusCache.mutex")

\* invalidateInstanceCache taking sizeMutex while it holds instanceMutex.
invalidateInstanceCacheSized(w) ==
    Unlock(Unlock([Lock(Lock(w, "instanceMutex"), "sizeMutex") EXCEPT
                       !.ss.lastInstanceRefresh = Add(Now, -1 * vmssInstancesRefreshPeriod)],
                  "sizeMutex"),
           "instanceMutex")

invalidateInstanceCache(w) ==
    Unlock([Lock(w, "instanceMutex") EXCEPT
                !.ss.lastInstanceRefresh = Add(Now, -1 * vmssInstancesRefreshPeriod)],
           "instanceMutex")

\* The first critical section of invalidateStatusCacheWithLock.
resetLastSizeRefresh(w) ==
    Unlock([Access(Lock(w, "sizeMutex"), {"lastSizeRefresh"}) EXCEPT
                !.ss.lastSizeRefresh = Add(Now, -1 * sizeRefreshPeriod)],
           "sizeMutex")

\* The second critical section of invalidateStatusCacheWithLock.
resetLastRefresh(w) ==
    Unlock([Lock(w, "scaleSetStatusCache.mutex") EXCEPT
                !.cache.lastRefresh = Add(Now, -1 * sizeRefreshPeriod)],
           "scaleSetStatusCache.mutex")

invalidateStatusCacheWithLock(w) == resetLastRefresh(resetLastSizeRefresh(w))

\* getCurSize leaving lastSizeRefresh as it is when the refresh is throttled.
getCurSizeNoDefer(w) ==
    LET w0 == Access(Lock(w, "sizeMutex"), {"curSize", "lastSizeRefresh"}) IN
    Deferred(
        IF After(Add(w0.ss.lastSizeRefresh, sizeRefreshPeriod), Now)
        THEN {[w |-> w0, err |-> "nil", ret |-> w0.ss.curSize]}
        ELSE {IF set.err # "nil"
              THEN IF isAzureRequestsThrottled(set.err)
                   THEN [w |-> [set.w EXCEPT !.thr = @ \cup {"size"}],
                         err |-> "nil", ret |-> w0.ss.curSize]
                   ELSE [w |-> set.w, err |-> set.err, ret |-> -1]
              ELSE LET curSize == set.ret
                       w1 == Unlock(Lock(set.w, "vmssSizeMutex"), "vmssSizeMutex")
                       w2 == IF w1.ss.curSize # curSize
                             THEN invalidateInstanceCache(w1)
                             ELSE w1
                   IN  [w |-> [w2 EXCEPT !.ss.curSize = curSize, !.ss.lastSizeRefresh = Now,
                                             !.obs = TRUE],
                        err |-> "nil", ret |-> curSize]
              : set \in getVMSSInfo(w0)},
        "sizeMutex")

\* getCurSize not invalidating the instance cache when the capacity has changed.
getCurSizeKeepsInstances(w) ==
    LET w0 == Access(Lock(w, "sizeMutex"), {"curSize", "lastSizeRefresh"}) IN
    Deferred(
        IF After(Add(w0.ss.lastSizeRefresh, sizeRefreshPeriod), Now)
        THEN {[w |-> w0, err |-> "nil", ret |-> w0.ss.curSize]}
        ELSE {IF set.err # "nil"
              THEN IF isAzureRequestsThrottled(set.err)
                   THEN [w |-> [set.w EXCEPT !.ss.lastSizeRefresh = Now,
                                             !.thr = @ \cup {"size"}],
                         err |-> "nil", ret |-> w0.ss.curSize]
                   ELSE [w |-> set.w, err |-> set.err, ret |-> -1]
              ELSE LET curSize == set.ret
                       w1 == Unlock(Lock(set.w, "vmssSizeMutex"), "vmssSizeMutex")
                       w2 == w1
                   IN  [w |-> [w2 EXCEPT !.ss.curSize = curSize, !.ss.lastSizeRefresh = Now,
                                             !.obs = TRUE],
                        err |-> "nil", ret |-> curSize]
              : set \in getVMSSInfo(w0)},
        "sizeMutex")

getCurSize(w) ==
    LET w0 == Access(Lock(w, "sizeMutex"), {"curSize", "lastSizeRefresh"}) IN
    Deferred(
        IF After(Add(w0.ss.lastSizeRefresh, sizeRefreshPeriod), Now)
        THEN {[w |-> w0, err |-> "nil", ret |-> w0.ss.curSize]}
        ELSE {IF set.err # "nil"
              THEN IF isAzureRequestsThrottled(set.err)
                   THEN [w |-> [set.w EXCEPT !.ss.lastSizeRefresh = Now,
                                             !.thr = @ \cup {"size"}],
                         err |-> "nil", ret |-> w0.ss.curSize]
                   ELSE [w |-> set.w, err |-> set.err, ret |-> -1]
              ELSE LET curSize == set.ret
                       w1 == Unlock(Lock(set.w, "vmssSizeMutex"), "vmssSizeMutex")
                       w2 == IF w1.ss.curSize # curSize
                             THEN invalidateInstanceCache(w1)
                             ELSE w1
                   IN  [w |-> [w2 EXCEPT !.ss.curSize = curSize, !.ss.lastSizeRefresh = Now,
                                             !.obs = TRUE],
                        err |-> "nil", ret |-> curSize]
              : set \in getVMSSInfo(w0)},
        "sizeMutex")

\* virtualMachineScaleSetsClient.CreateOrUpdateAsync: the backend accepts the
\* request or refuses it, and refuses a negative capacity.
CreateOrUpdateAsync(w, size) ==
    {[w |-> Call(w, "CreateOrUpdateAsync", size),
      err |-> IF issue = "ok" /\ size >= 0 THEN "nil" ELSE "error"] : issue \in IssueResponses}

\* updateVMSSCapacity without its write to lastSizeRefresh.
updateVMSSCapacityStale(w, size) ==
    UNION {IF vmssInfo.err # "nil"
           THEN {[w |-> vmssInfo.w, err |-> vmssInfo.err]}
           ELSE {IF future.err # "nil"
                 THEN [w |-> future.w, err |-> future.err]
                 ELSE [w |-> [Access(future.w, {"curSize", "lastSizeRefresh"}) EXCEPT
                                  !.ss.curSize = size,
                                  !.fut.update = @ + 1,
                                  !.obs = TRUE],
                       err |-> "nil"]
                 : future \in CreateOrUpdateAsync(
                                  [Unlock(Lock(vmssInfo.w, "vmssSizeMutex"), "vmssSizeMutex")
                                       EXCEPT !.cache.scaleSets[Name] = size], size)}
           : vmssInfo \in getVMSSInfo(w)}

\* vmssInfo is a copy of the cache's entry and shares its Sku: the write to
\* vmssInfo.Sku.Capacity is a write to the cache's entry.
updateVMSSCapacity(w, size) ==
    UNION {IF vmssInfo.err # "nil"
           THEN {[w |-> vmssInfo.w, err |-> vmssInfo.err]}
           ELSE {IF future.err # "nil"
                 THEN [w |-> future.w, err |-> future.err]
                 ELSE [w |-> [Access(future.w, {"curSize", "lastSizeRefresh"}) EXCEPT
                                  !.ss.curSize = size,
                                  !.ss.lastSizeRefresh = Now,
                                  !.fut.update = @ + 1,
                                  !.obs = TRUE],
                       err |-> "nil"]
                 : future \in CreateOrUpdateAsync(
                                  [Unlock(Lock(vmssInfo.w, "vmssSizeMutex"), "vmssSizeMutex")
                                       EXCEPT !.cache.scaleSets[Name] = size], size)}
           : vmssInfo \in getVMSSInfo(w)}

\* SetScaleSetSize not taking sizeMutex.
SetScaleSetSizeUnlocked(w, size) == updateVMSSCapacity(w, size)

SetScaleSetSize(w, size) ==
    Deferred(updateVMSSCapacity(Lock(w, "sizeMutex"), size), "sizeMutex")

TargetSize(w) == getCurSize(w)

\* IncreaseSize comparing the size alone, not size + delta, with maxSize.
IncreaseSizeLax(w, delta) ==
    IF delta <= 0
    THEN {[w |-> w, err |-> "size increase must be positive", seen |-> <<>>]}
    ELSE UNION {
           IF size.err # "nil"
           THEN {[w |-> size.w, err |-> size.err, seen |-> <<>>]}
           ELSE IF size.ret = -1
           THEN {[w |-> size.w, err |-> "under initialization", seen |-> <<size.ret>>]}
           ELSE IF size.ret > maxSize
           THEN {[w |-> size.w, err |-> "size increase too large", seen |-> <<size.ret>>]}
           ELSE {[w |-> r.w, err |-> r.err, seen |-> <<size.ret>>]
                 : r \in SetScaleSetSize(size.w, size.ret + delta)}
           : size \in getCurSize(w)}

\* IncreaseSize turning away a negative delta only.
IncreaseSizeZero(w, delta) ==
    IF delta < 0
    THEN {[w |-> w, err |-> "size increase must be positive", seen |-> <<>>]}
    ELSE UNION {
           IF size.err # "nil"
           THEN {[w |-> size.w, err |-> size.err, seen |-> <<>>]}
           ELSE IF size.ret = -1
           THEN {[w |-> size.w, err |-> "under initialization", seen |-> <<size.ret>>]}
           ELSE IF size.ret + delta > maxSize
           THEN {[w |-> size.w, err |-> "size increase too large", seen |-> <<size.ret>>]}
           ELSE {[w |-> r.w, err |-> r.err, seen |-> <<size.ret>>]
                 : r \in SetScaleSetSize(size.w, size.ret + delta)}
           : size \in getCurSize(w)}

\* seen: the size GetScaleSetSize returned to the operation, <<>> if it was not
\* asked or failed (history, for the properties).
IncreaseSize(w, delta) ==
    IF delta <= 0
    THEN {[w |-> w, err |-> "size increase must be positive", seen |-> <<>>]}
    ELSE UNION {
           IF size.err # "nil"
           THEN {[w |-> size.w, err |-> size.err, seen |-> <<>>]}
           ELSE IF size.ret = -1
           THEN {[w |-> size.w, err |-> "under initialization", seen |-> <<size.ret>>]}
           ELSE IF size.ret + delta > maxSize
           THEN {[w |-> size.w, err |-> "size increase too large", seen |-> <<size.ret>>]}
           ELSE {[w |-> r.w, err |-> r.err, seen |-> <<size.ret>>]
                 : r \in SetScaleSetSize(size.w, size.ret + delta)}
           : size \in getCurSize(w)}

\* DecreaseTargetSize without its invalidateInstanceCache.
DecreaseTargetSizeKeepsCache(w, delta) ==
    {[w |-> r.w, err |-> r.err] : r \in getCurSize(w)}

\* DecreaseTargetSize returning no error whatever the size read returned.
DecreaseTargetSizeSilent(w, delta) ==
    {[w |-> r.w, err |-> "nil"] : r \in getCurSize(invalidateInstanceCache(w))}

DecreaseTargetSize(w, delta) ==
    {[w |-> r.w, err |-> r.err] : r \in getCurSize(invalidateInstanceCache(w))}

\* getInstanceByProviderID finding nothing in the cache.
getInstanceByProviderIDNone(w, providerID) ==
    [found |-> FALSE, instance |-> [Id |-> <<>>, Status |-> "nil"]]

getInstanceByProviderID(w, providerID) ==
    IF \E i \in 1..Len(w.ss.instanceCache) : w.ss.instanceCache[i].Id = providerID
    THEN [found |-> TRUE,
          instance |-> w.ss.instanceCache[
              CHOOSE i \in 1..Len(w.ss.instanceCache) :
                  /\ w.ss.instanceCache[i].Id = providerID
                  /\ \A j \in 1..(i - 1) : w.ss.instanceCache[j].Id # providerID]]
    ELSE [found |-> FALSE, instance |-> [Id |-> <<>>, Status |-> "nil"]]

\* The loop of DeleteInstances without its comparison of asg with commonAsg.
RECURSIVE collectInstanceIDsAnyGroup(_, _, _, _, _)
collectInstanceIDsAnyGroup(w, instances, commonAsg, i, instanceIDs) ==
    IF i > Len(instances)
    THEN [err |-> "nil", ret |-> instanceIDs]
    ELSE LET instance == instances[i]
             cpi == getInstanceByProviderID(w, instance)
         IN  IF cpi.found /\ cpi.instance.Status # "nil"
                          /\ cpi.instance.Status = "InstanceDeleting"
             THEN collectInstanceIDsAnyGroup(w, instances, commonAsg, i + 1, instanceIDs)
             ELSE collectInstanceIDsAnyGroup(w, instances, commonAsg, i + 1,
                                             Append(instanceIDs, getLastSegment(instance)))

\* The loop of DeleteInstances over instances[i..], instanceIDs collected so far.
RECURSIVE collectInstanceIDs(_, _, _, _, _)
collectInstanceIDs(w, instances, commonAsg, i, instanceIDs) ==
    IF i > Len(instances)
    THEN [err |-> "nil", ret |-> instanceIDs]
    ELSE LET instance == instances[i]
             asg == GetAsgForInstance(instance)
             cpi == getInstanceByProviderID(w, instance)
         IN  IF ~EqualFold(asg, commonAsg)
             THEN [err |-> "not the same scale set", ret |-> instanceIDs]
             ELSE IF cpi.found /\ cpi.instance.Status # "nil"
                               /\ cpi.instance.Status = "InstanceDeleting"
             THEN collectInstanceIDs(w, instances, commonAsg, i + 1, instanceIDs)
             ELSE collectInstanceIDs(w, instances, commonAsg, i + 1,
                                     Append(instanceIDs, getLastSegment(instance)))

\* virtualMachineScaleSetsClient.DeleteInstancesAsync: the backend accepts the
\* request or refuses it.
DeleteInstancesAsync(w, asg, instanceIDs) ==
    {[w |-> Call(w, "DeleteInstancesAsync", [asg |-> asg, InstanceIds |-> instanceIDs]),
      err |-> IF issue = "ok" THEN "nil" ELSE "error"] : issue \in IssueResponses}

\* DeleteInstances taking every requested instance off curSize.
DeleteInstancesAll(w, instances) ==
    IF Len(instances) = 0
    THEN {[w |-> w, err |-> "nil", ids |-> <<>>]}
    ELSE LET commonAsg == GetAsgForInstance(instances[1])
             loop == collectInstanceIDs(w, instances, commonAsg, 1, <<>>)
             instanceIDs == loop.ret
             w1 == Unlock(Lock(w, "instanceMutex"), "instanceMutex")
         IN  IF loop.err # "nil"
             THEN {[w |-> w1, err |-> loop.err, ids |-> instanceIDs]}
             ELSE IF Len(instanceIDs) = 0
             THEN {[w |-> w1, err |-> "nil", ids |-> instanceIDs]}
             ELSE {LET w2 == Unlock(future.w, "instanceMutex") IN
                   IF future.err # "nil"
                   THEN [w |-> w2, err |-> future.err, ids |-> instanceIDs]
                   ELSE [w |-> Unlock([Access(Lock(w2, "sizeMutex"), {"curSize"}) EXCEPT
                                           !.ss.curSize = @ - Len(instances),
                                           !.fut.delete = @ + 1],
                                      "sizeMutex"),
                         err |-> "nil", ids |-> instanceIDs]
                   : future \in DeleteInstancesAsync(Lock(w1, "instanceMutex"),
                                                     commonAsg, instanceIDs)}

\* DeleteInstances without its return on an empty instanceIDs.
DeleteInstancesEager(w, instances) ==
    IF Len(instances) = 0
    THEN {[w |-> w, err |-> "nil", ids |-> <<>>]}
    ELSE LET commonAsg == GetAsgForInstance(instances[1])
             loop == collectInstanceIDs(w, instances, commonAsg, 1, <<>>)
             instanceIDs == loop.ret
             w1 == Unlock(Lock(w, "instanceMutex"), "instanceMutex")
         IN  IF loop.err # "nil"
             THEN {[w |-> w1, err |-> loop.err, ids |-> instanceIDs]}
             ELSE {LET w2 == Unlock(future.w, "instanceMutex") IN
                   IF future.err # "nil"
                   THEN [w |-> w2, err |-> future.err, ids |-> instanceIDs]
                   ELSE [w |-> Unlock([Access(Lock(w2, "sizeMutex"), {"curSize"}) EXCEPT
                                           !.ss.curSize = @ - Len(instanceIDs),
                                           !.fut.delete = @ + 1],
                                      "sizeMutex"),
                         err |-> "nil", ids |-> instanceIDs]
                   : future \in DeleteInstancesAsync(Lock(w1, "instanceMutex"),
                                                     commonAsg, instanceIDs)}

\* ids: the instanceIDs the call came to (history, for the properties).  w1:
\* getInstanceByProviderID takes and releases instanceMutex at each lookup of
\* the loop.
DeleteInstances(w, instances) ==
    IF Len(instances) = 0
    THEN {[w |-> w, err |-> "nil", ids |-> <<>>]}
    ELSE LET commonAsg == GetAsgForInstance(instances[1])
             loop == collectInstanceIDs(w, instances, commonAsg, 1, <<>>)
             instanceIDs == loop.ret
             w1 == Unlock(Lock(w, "instanceMutex"), "instanceMutex")
         IN  IF loop.err # "nil"
             THEN {[w |-> w1, err |-> loop.err, ids |-> instanceIDs]}
             ELSE IF Len(instanceIDs) = 0
             THEN {[w |-> w1, err |-> "nil", ids |-> instanceIDs]}
             ELSE {LET w2 == Unlock(future.w, "instanceMutex") IN
                   IF future.err # "nil"
                   THEN [w |-> w2, err |-> future.err, ids |-> instanceIDs]
                   ELSE [w |-> Unlock([Access(Lock(w2, "sizeMutex"), {"curSize"}) EXCEPT
                                           !.ss.curSize = @ - Len(instanceIDs),
                                           !.fut.delete = @ + 1],
                                      "sizeMutex"),
                         err |-> "nil", ids |-> instanceIDs]
                   : future \in DeleteInstancesAsync(Lock(w1, "instanceMutex"),
                                                     commonAsg, instanceIDs)}

\* Belongs, on the node's provider id.
Belongs(node) ==
    LET targetAsg == GetAsgForInstance(node) IN
    [err |-> "nil", ret |-> EqualFold(targetAsg, Name)]

\* DeleteNodes refusing below minSize only, not at it.
DeleteNodesBelow(w, nodes) ==
    UNION {
      IF size.err # "nil"
      THEN {[w |-> size.w, err |-> size.err, seen |-> <<>>, ids |-> <<>>]}
      ELSE IF size.ret < minSize
      THEN {[w |-> size.w, err |-> "min size reached", seen |-> <<size.ret>>, ids |-> <<>>]}
      ELSE IF \E i \in 1..Len(nodes) : Belongs(nodes[i]).err # "nil" \/ ~Belongs(nodes[i]).ret
      THEN {[w |-> size.w, err |-> "belongs to a different asg",
             seen |-> <<size.ret>>, ids |-> <<>>]}
      ELSE {[w |-> r.w, err |-> r.err, seen |-> <<size.ret>>, ids |-> r.ids]
            : r \in DeleteInstances(size.w, nodes)}
      : size \in getCurSize(w)}

\* seen, ids: as in IncreaseSize and DeleteInstances.
DeleteNodes(w, nodes) ==
    UNION {
      IF size.err # "nil"
      THEN {[w |-> size.w, err |-> size.err, seen |-> <<>>, ids |-> <<>>]}
      ELSE IF size.ret <= minSize
      THEN {[w |-> size.w, err |-> "min size reached", seen |-> <<size.ret>>, ids |-> <<>>]}
      ELSE IF \E i \in 1..Len(nodes) : Belongs(nodes[i]).err # "nil" \/ ~Belongs(nodes[i]).ret
      THEN {[w |-> size.w, err |-> "belongs to a different asg",
             seen |-> <<size.ret>>, ids |-> <<>>]}
      ELSE {[w |-> r.w, err |-> r.err, seen |-> <<size.ret>>, ids |-> r.ids]
            : r \in DeleteInstances(size.w, nodes)}
      : size \in getCurSize(w)}

TemplateNodeInfo(w) ==
    {[w |-> template.w, err |-> template.err] : template \in getVMSSInfo(w)}

instanceStatusFromVM(vm) ==
    IF vm.ProvisioningState = "nil"
    THEN "nil"
    ELSE CASE vm.ProvisioningState = "Deleting" -> "InstanceDeleting"
           [] vm.ProvisioningState = "Creating" -> "InstanceCreating"
           [] OTHER -> "InstanceRunning"

RECURSIVE buildInstanceCache(_)
buildInstanceCache(vms) ==
    IF vms = <<>>
    THEN <<>>
    ELSE LET vm == Head(vms)
             resourceID == convertResourceGroupNameToLower(vm.ID)
             rest == buildInstanceCache(Tail(vms))
         IN  IF Len(vm.ID) = 0
             THEN rest
             ELSE IF resourceID.err # "nil"
             THEN rest
             ELSE <<[Id |-> <<"azure://">> \o resourceID.ret,
                     Status |-> instanceStatusFromVM(vm)]>> \o rest

\* virtualMachineScaleSetVMsClient.List, as GetScaleSetVms calls it.
GetScaleSetVms(w) ==
    {[w |-> Call(w, "ListVMs", Name), err |-> resp.err, ret |-> resp.ret]
     : resp \in VMListResponses}

\* Nodes serving a fresh instanceCache of any length.
NodesAnyLength(w) ==
    UNION {
      IF size.err # "nil"
      THEN {[w |-> size.w, err |-> size.err, ret |-> <<>>]}
      ELSE LET w0 == Lock(size.w, "instanceMutex") IN
           Deferred(
               IF /\ After(Add(w0.ss.lastInstanceRefresh, vmssInstancesRefreshPeriod), Now)
               THEN {[w |-> w0, err |-> "nil", ret |-> w0.ss.instanceCache]}
               ELSE {IF vms.err # "nil"
                     THEN IF isAzureRequestsThrottled(vms.err)
                          THEN [w |-> [vms.w EXCEPT !.ss.lastInstanceRefresh = Now,
                                                    !.thr = @ \cup {"instances"}],
                                err |-> "nil", ret |-> w0.ss.instanceCache]
                          ELSE [w |-> vms.w, err |-> vms.err, ret |-> <<>>]
                     ELSE [w |-> [vms.w EXCEPT
                                      !.ss.instanceCache = buildInstanceCache(vms.ret),
                                      !.vms = vms.ret,
                                      !.ss.lastInstanceRefresh = Now],
                           err |-> "nil", ret |-> buildInstanceCache(vms.ret)]
                     : vms \in GetScaleSetVms(w0)},
               "instanceMutex")
      : size \in getCurSize(w)}

Nodes(w) ==
    UNION {
      IF size.err # "nil"
      THEN {[w |-> size.w, err |-> size.err, ret |-> <<>>]}
      ELSE LET w0 == Lock(size.w, "instanceMutex") IN
           Deferred(
               IF /\ Len(w0.ss.instanceCache) = size.ret
                  /\ After(Add(w0.ss.lastInstanceRefresh, vmssInstancesRefreshPeriod), Now)
               THEN {[w |-> w0, err |-> "nil", ret |-> w0.ss.instanceCache]}
               ELSE {IF vms.err # "nil"
                     THEN IF isAzureRequestsThrottled(vms.err)
                          THEN [w |-> [vms.w EXCEPT !.ss.lastInstanceRefresh = Now,
                                                    !.thr = @ \cup {"instances"}],
                                err |-> "nil", ret |-> w0.ss.instanceCache]
                          ELSE [w |-> vms.w, err |-> vms.err, ret |-> <<>>]
                     ELSE [w |-> [vms.w EXCEPT
                                      !.ss.instanceCache = buildInstanceCache(vms.ret),
                                      !.vms = vms.ret,
                                      !.ss.lastInstanceRefresh = Now],
                           err |-> "nil", ret |-> buildInstanceCache(vms.ret)]
                     : vms \in GetScaleSetVms(w0)},
               "instanceMutex")
      : size \in getCurSize(w)}

\* The goroutine started by updateVMSSCapacity, when WaitForCreateOrUpdate returns.
waitForUpdateVMSSCapacity(w) ==
    {LET w1 == [Call(w, "WaitForCreateOrUpdate", <<>>) EXCEPT !.fut.update = @ - 1] IN
     IF resp = "ok"
     THEN [w |-> invalidateInstanceCache(w1), err |-> "nil"]
     ELSE [w |-> invalidateStatusCacheWithLock(w1), err |-> "error"]
     : resp \in WaitResponses}

\* The goroutine started by DeleteInstances, when WaitForDeleteInstances returns.
waitForDeleteInstances(w) ==
    {LET w1 == [Call(w, "WaitForDeleteInstances", <<>>) EXCEPT !.fut.delete = @ - 1] IN
     IF resp = "ok"
     THEN [w |-> w1, err |-> "nil"]
     ELSE [w |-> w1, err |-> "error"]
     : resp \in WaitResponses}

---------------------------------------------------------------------------
(* The state machine. *)

\* time.Time{}: older than any period.
ZeroTime(period) == Add(Now, -1 * period)

\* NewScaleSet, with the scaleSetStatusCache still empty.
Init ==
    /\ scaleSet = [curSize |-> -1,
                   lastSizeRefresh |-> ZeroTime(sizeRefreshPeriod),
                   instanceCache |-> <<>>,
                   lastInstanceRefresh |-> ZeroTime(vmssInstancesRefreshPeriod)]
    /\ scaleSetStatusCache = [lastRefresh |-> ZeroTime(sizeRefreshPeriod), scaleSets |-> <<>>]
    /\ futures = [update |-> 0, delete |-> 0]
    /\ observed = FALSE
    /\ listed = <<>>
    /\ issued = <<>>

\* The step to the state w; the bounds of the model stop the steps that would
\* exceed them.
InBounds(w) ==
    /\ w.fut.update + w.fut.delete <= MaxPending
    /\ w.ss.curSize >= -1 - MaxUnderflow

Apply(w) ==
    /\ InBounds(w)
    /\ scaleSet' = w.ss
    /\ scaleSetStatusCache' = w.cache
    /\ futures' = w.fut
    /\ observed' = w.obs
    /\ listed' = w.vms

Sizes == 0..MaxCapacity
Deltas == -1..MaxCapacity
Batches == SeqsUpTo(Instances, MaxBatch)

\* The step of an operation: to the state of one of its outcomes, with the
\* history issued as the outcome has it.  steps is the set of the pairs
\* <<w, issued'>>.
Step(steps) ==
    \E s \in {<<Rest(x[1]), x[2]>> : x \in steps} :
        /\ Apply(s[1])
        /\ issued' = s[2]

CallTargetSize ==
    Step({<<r.w, issued>> : r \in TargetSize(World)})

CallSetScaleSetSize ==
    Step(UNION {{<<r.w, IF r.err = "nil" THEN <<size, Now>> ELSE issued>>
                 : r \in SetScaleSetSize(World, size)} : size \in Sizes})

CallIncreaseSize ==
    Step(UNION {{<<r.w, IF r.err = "nil" THEN <<r.seen[1] + delta, Now>> ELSE issued>>
                 : r \in IncreaseSize(World, delta)} : delta \in Deltas})

CallDecreaseTargetSize ==
    Step(UNION {{<<r.w, issued>> : r \in DecreaseTargetSize(World, delta)} : delta \in Deltas})

CallDeleteInstances ==
    Step(UNION {{<<r.w, IF r.err = "nil" /\ r.ids # <<>> THEN <<>> ELSE issued>>
                 : r \in DeleteInstances(World, instances)} : instances \in Batches})

CallDeleteNodes ==
    Step(UNION {{<<r.w, IF r.err = "nil" /\ r.ids # <<>> THEN <<>> ELSE issued>>
                 : r \in DeleteNodes(World, nodes)} : nodes \in Batches})

CallNodes ==
    Step({<<r.w, issued>> : r \in Nodes(World)})

CallTemplateNodeInfo ==
    Step({<<r.w, issued>> : r \in TemplateNodeInfo(World)})

\* A goroutine waiting for a capacity update gets the answer.
UpdateWaitReturns ==
    /\ futures.update > 0
    /\ Step({<<r.w, IF r.err = "nil" THEN issued ELSE <<>> >>
             : r \in waitForUpdateVMSSCapacity(World)})

\* A goroutine waiting for a deletion gets the answer.
DeleteWaitReturns ==
    /\ futures.delete > 0
    /\ Step({<<r.w, issued>> : r \in waitForDeleteInstances(World)})

\* A timestamp one tick later: one tick older, up to the period that is asked
\* of it.
Older(t, period) == Max(t - 1, ZeroTime(period))

\* w one tick later.
Later(w) ==
    [w EXCEPT !.ss.lastSizeRefresh = Older(@, sizeRefreshPeriod),
              !.ss.lastInstanceRefresh = Older(@, vmssInstancesRefreshPeriod),
              !.cache.lastRefresh = Older(@, sizeRefreshPeriod)]

Tick ==
    /\ Apply(Later(World))
    /\ issued' = IF issued # <<>> /\ After(Add(issued[2] - 1, sizeRefreshPeriod), Now)
                 THEN <<issued[1], issued[2] - 1>>
                 ELSE <<>>

Next ==
    \/ CallTargetSize
    \/ CallSetScaleSetSize
    \/ CallIncreaseSize
    \/ CallDecreaseTargetSize
    \/ CallDeleteInstances
    \/ CallDeleteNodes
    \/ CallNodes
    \/ CallTemplateNodeInfo
    \/ UpdateWaitReturns
    \/ DeleteWaitReturns
    \/ Tick

Spec == Init /\ [][Next]_vars

\* The rebuild of the instance cache alone, as Nodes does it when a listing
\* has succeeded, over every VM list.
Rebuild ==
    \E vms \in VMLists :
        /\ listed' = vms
        /\ scaleSet' = [scaleSet EXCEPT !.instanceCache = buildInstanceCache(vms),
                                        !.lastInstanceRefresh = Now]
        /\ UNCHANGED <<scaleSetStatusCache, futures, observed, issued>>

SpecBuild == Init /\ [][Rebuild]_vars

---------------------------------------------------------------------------
(* Properties.  An operation is a function of the state it is called in    *)
(* and of the backend's answers, so a property of an operation is stated   *)
(* in every reachable state, of every outcome the operation has there.     *)

\* getCurSize answers from curSize, without asking the backend.
SizeFresh == After(Add(scaleSet.lastSizeRefresh, sizeRefreshPeriod), Now)

\* The instance cache holds providerID as an instance that is being deleted.
CachedDeleting(providerID) ==
    \E i \in 1..Len(scaleSet.instanceCache) :
        /\ scaleSet.instanceCache[i].Id = providerID
        /\ scaleSet.instanceCache[i].Status = "InstanceDeleting"

\* The calls the operation that ended in w made to api.
CallsTo(w, api) == SelectSeq(w.calls, LAMBDA c : c.api = api)

\* w is the state the operation was called in.
Untouched(w) ==
    /\ w.ss = scaleSet
    /\ w.cache = scaleSetStatusCache
    /\ w.fut = futures

\* The instances are all of one scale set.
SameGroup(instances) ==
    \A i, j \in 1..Len(instances) :
        GetAsgForInstance(instances[i]) = GetAsgForInstance(instances[j])

\* The instance ids of the instances that are not cached as being deleted.
NotDeletingIDs(instances) ==
    LET wanted == SelectSeq(instances, LAMBDA p : ~CachedDeleting(p))
    IN  [i \in 1..Len(wanted) |-> getLastSegment(wanted[i])]

\* C1: once SetScaleSetSize(n) has issued the capacity update, and until
\* another mutation is issued, a waiting goroutine invalidates the size cache
\* or sizeRefreshPeriod has passed, curSize is n, lastSizeRefresh is the time
\* of the issue, and TargetSize returns n without a call to the backend.
SetSizeIsServedFromCache ==
    issued # <<>> =>
        /\ scaleSet.curSize = issued[1]
        /\ scaleSet.lastSizeRefresh = issued[2]
        /\ \A r \in TargetSize(World) :
               /\ r.err = "nil"
               /\ r.ret = issued[1]
               /\ r.w.calls = <<>>
               /\ Untouched(r.w)

\* A capacity update was issued a tick ago, its goroutine has returned, and
\* TargetSize is asked.
SetSizeIsServedFromCacheWitness ==
    /\ issued # <<>>
    /\ issued[2] < Now
    /\ futures.update = 0
    /\ \E r \in TargetSize(World) : r.ret = issued[1]

\* C2: SetScaleSetSize(n) with n > maxSize returns an error, issues no
\* CreateOrUpdateAsync and leaves curSize as it was.
SetSizeRejectsAboveMax ==
    \A size \in Sizes :
        size > maxSize =>
            \A r \in SetScaleSetSize(World, size) :
                /\ r.err # "nil"
                /\ CallsTo(r.w, "CreateOrUpdateAsync") = <<>>
                /\ r.w.ss.curSize = scaleSet.curSize

\* C3, as the code has it: a DeleteInstances that returns success takes off
\* curSize the number of requested instances that are not cached as being
\* deleted.
DeleteInstancesDecrementsBySubmitted ==
    \A instances \in Batches :
        \A r \in DeleteInstances(World, instances) :
            r.err = "nil" =>
                r.w.ss.curSize =
                    scaleSet.curSize
                    - Cardinality({i \in 1..Len(instances) : ~CachedDeleting(instances[i])})

\* A successful DeleteInstances of an instance that is cached as being deleted
\* together with one that is not.
DeleteInstancesDecrementsBySubmittedWitness ==
    \E instances \in Batches :
        /\ \E i \in 1..Len(instances) : CachedDeleting(instances[i])
        /\ \E i \in 1..Len(instances) : ~CachedDeleting(instances[i])
        /\ \E r \in DeleteInstances(World, instances) : r.err = "nil" /\ InBounds(r.w)

\* C3, as stated: a DeleteInstances that returns success takes the number of
\* requested instances off curSize, whatever their cached state.
DeleteInstancesDecrementsByRequested ==
    \A instances \in Batches :
        \A r \in DeleteInstances(World, instances) :
            r.err = "nil" => r.w.ss.curSize = scaleSet.curSize - Len(instances)

\* C4: DeleteInstances of instances of one scale set, not all of them cached as
\* being deleted, calls DeleteInstancesAsync once, with the ids of exactly the
\* requested instances not cached as being deleted, makes no other call, and
\* on success takes the number of submitted ids off curSize.
DeleteInstancesSkipsDeleting ==
    \A instances \in Batches :
        (SameGroup(instances) /\ NotDeletingIDs(instances) # <<>>) =>
            \A r \in DeleteInstances(World, instances) :
                /\ r.w.calls =
                       <<[api |-> "DeleteInstancesAsync",
                          arg |-> [asg |-> GetAsgForInstance(instances[1]),
                                   InstanceIds |-> NotDeletingIDs(instances)]]>>
                /\ r.w.ss.curSize =
                       IF r.err = "nil"
                       THEN scaleSet.curSize - Len(NotDeletingIDs(instances))
                       ELSE scaleSet.curSize

\* DeleteInstances([A, B]) succeeds with B cached as being deleted and A not:
\* [A's id] is submitted.
DeleteInstancesSkipsDeletingWitness ==
    /\ CachedDeleting(InstB)
    /\ ~CachedDeleting(InstA)
    /\ \E r \in DeleteInstances(World, <<InstA, InstB>>) :
           /\ r.err = "nil"
           /\ r.ids = <<"0">>
           /\ r.w.ss.curSize = scaleSet.curSize - 1
           /\ InBounds(r.w)

\* C5: DeleteInstances of instances of two scale sets returns an error, calls
\* nothing and leaves curSize as it was, wherever the foreign instance stands.
DeleteInstancesRejectsMixedGroups ==
    \A instances \in Batches :
        ~SameGroup(instances) =>
            \A r \in DeleteInstances(World, instances) :
                /\ r.err # "nil"
                /\ r.w.calls = <<>>
                /\ r.w.ss.curSize = scaleSet.curSize

\* With instances cached and a size observed, DeleteInstances is refused the
\* foreign instance in the first place and in the second.
DeleteInstancesRejectsMixedGroupsWitness ==
    /\ observed
    /\ scaleSet.instanceCache # <<>>
    /\ \E r \in DeleteInstances(World, <<InstA, InstC>>) : r.err # "nil"
    /\ \E r \in DeleteInstances(World, <<InstC, InstA>>) : r.err # "nil"

\* C6: DeleteInstances of no instance, or of instances that are all cached as
\* being deleted, returns success, calls nothing, starts no goroutine and
\* leaves the ScaleSet and the scaleSetStatusCache as they were.
DeleteInstancesOfNothingIsSilent ==
    \A instances \in Batches :
        (\A i \in 1..Len(instances) : CachedDeleting(instances[i])) =>
            \A r \in DeleteInstances(World, instances) :
                /\ r.err = "nil"
                /\ r.w.calls = <<>>
                /\ Untouched(r.w)

\* DeleteInstances([B]) with B cached as being deleted, while nothing waits.
DeleteInstancesOfNothingIsSilentWitness ==
    /\ CachedDeleting(InstB)
    /\ futures.delete = 0
    /\ \E r \in DeleteInstances(World, <<InstB>>) : r.err = "nil" /\ r.ids = <<>>

\* C7: IncreaseSize(delta) that is returned a size with size + delta > maxSize
\* returns an error and does not call CreateOrUpdateAsync; with a fresh size
\* cache it calls nothing and leaves curSize as it was.
IncreaseSizeRejectsAboveMax ==
    \A delta \in Deltas :
        \A r \in IncreaseSize(World, delta) :
            /\ (r.seen # <<>> /\ r.seen[1] + delta > maxSize) =>
                   /\ r.err # "nil"
                   /\ CallsTo(r.w, "CreateOrUpdateAsync") = <<>>
            /\ (SizeFresh /\ delta > 0 /\ scaleSet.curSize + delta > maxSize) =>
                   /\ r.err # "nil"
                   /\ r.w.calls = <<>>
                   /\ r.w.ss.curSize = scaleSet.curSize

\* IncreaseSize(1) at curSize = maxSize with a fresh size cache.
IncreaseSizeRejectsAboveMaxWitness ==
    /\ SizeFresh
    /\ scaleSet.curSize = maxSize
    /\ \E r \in IncreaseSize(World, 1) : r.err # "nil" /\ r.seen = <<maxSize>>

\* C8: IncreaseSize(delta) with delta <= 0 returns an error, calls nothing and
\* leaves the ScaleSet and the scaleSetStatusCache as they were.
IncreaseSizeRejectsNonPositive ==
    \A delta \in Deltas :
        delta <= 0 =>
            \A r \in IncreaseSize(World, delta) :
                /\ r.err # "nil"
                /\ r.w.calls = <<>>
                /\ Untouched(r.w)

\* IncreaseSize(0) with a stale size cache and room below maxSize: a call that
\* a positive delta would answer by asking the backend and resizing.
IncreaseSizeRejectsNonPositiveWitness ==
    /\ observed
    /\ ~SizeFresh
    /\ scaleSet.curSize \in 0..(maxSize - 1)
    /\ \E r \in IncreaseSize(World, 0) : r.err # "nil"

\* C9: while curSize still derives from the -1 of NewScaleSet (no refresh has
\* read the size from the backend, DeleteInstances may have taken instances
\* off it), an IncreaseSize that is returned this curSize returns an error and
\* does not call CreateOrUpdateAsync.
IncreaseSizeRefusesUnobserved ==
    ~observed =>
        \A delta \in Deltas :
            \A r \in IncreaseSize(World, delta) :
                (r.seen # <<>> /\ r.seen[1] = scaleSet.curSize) =>
                    /\ r.err # "nil"
                    /\ CallsTo(r.w, "CreateOrUpdateAsync") = <<>>

\* C10: DeleteNodes that is returned a size <= minSize returns an error and
\* does not call DeleteInstancesAsync; with a fresh size cache it calls
\* nothing and leaves curSize as it was.
DeleteNodesRefusesAtMin ==
    \A nodes \in Batches :
        \A r \in DeleteNodes(World, nodes) :
            /\ (r.seen # <<>> /\ r.seen[1] <= minSize) =>
                   /\ r.err # "nil"
                   /\ CallsTo(r.w, "DeleteInstancesAsync") = <<>>
            /\ (SizeFresh /\ scaleSet.curSize <= minSize) =>
                   /\ r.err # "nil"
                   /\ r.w.calls = <<>>
                   /\ r.w.ss.curSize = scaleSet.curSize

\* DeleteNodes([A]) at curSize = minSize with a fresh size cache.
DeleteNodesRefusesAtMinWitness ==
    /\ SizeFresh
    /\ scaleSet.curSize = minSize
    /\ \E r \in DeleteNodes(World, <<InstA>>) : r.err # "nil" /\ r.seen = <<minSize>>

\* w a number of ticks later.
RECURSIVE LaterBy(_, _)
LaterBy(w, ticks) == IF ticks = 0 THEN w ELSE LaterBy(Later(w), ticks - 1)

\* The states the operations can leave when called in w, but for a
\* waitForUpdateVMSSCapacity whose wait failed.
Operations(w) ==
    {r.w : r \in TargetSize(w)}
    \cup UNION {{r.w : r \in SetScaleSetSize(w, size)} : size \in Sizes}
    \cup UNION {{r.w : r \in IncreaseSize(w, delta)} : delta \in Deltas}
    \cup UNION {{r.w : r \in DecreaseTargetSize(w, delta)} : delta \in Deltas}
    \cup UNION {{r.w : r \in DeleteInstances(w, instances)} : instances \in Batches}
    \cup UNION {{r.w : r \in DeleteNodes(w, nodes)} : nodes \in Batches}
    \cup {r.w : r \in Nodes(w)}
    \cup {r.w : r \in TemplateNodeInfo(w)}
    \cup {r.w : r \in {o \in waitForUpdateVMSSCapacity(w) : w.fut.update > 0 /\ o.err = "nil"}}
    \cup {r.w : r \in {o \in waitForDeleteInstances(w) : w.fut.delete > 0}}

\* C11, as the code has it: always, a TargetSize whose size refresh is throttled
\* returns the cached curSize and no error and sets lastSizeRefresh to now;
\* the size reads of the following sizeRefreshPeriod then call nothing; and no
\* operation makes lastSizeRefresh older, but for a waitForUpdateVMSSCapacity
\* whose wait failed.
ThrottledSizeReadDefersRefresh ==
    [](/\ \A r \in TargetSize(World) :
              "size" \in r.w.thr =>
                  /\ r.err = "nil"
                  /\ r.ret = scaleSet.curSize
                  /\ r.w.ss.curSize = scaleSet.curSize
                  /\ r.w.ss.lastSizeRefresh = Now
                  /\ \A ticks \in 0..(sizeRefreshPeriod - 1) :
                         \A r2 \in getCurSize(LaterBy(Rest(r.w), ticks)) :
                             /\ r2.err = "nil"
                             /\ r2.ret = scaleSet.curSize
                             /\ r2.w.calls = <<>>
       /\ \A w \in Operations(World) : w.ss.lastSizeRefresh >= scaleSet.lastSizeRefresh)

\* A TargetSize whose refresh is throttled, with a size read from the backend
\* before in the cache.
ThrottledSizeReadDefersRefreshWitness ==
    /\ observed
    /\ scaleSet.curSize > 0
    /\ \E r \in TargetSize(World) : "size" \in r.w.thr /\ r.ret = scaleSet.curSize

\* C11, as stated: after a TargetSize whose size refresh is throttled, no size
\* read calls List before sizeRefreshPeriod has passed, whatever happens in
\* between, the return of a waiting goroutine included.
ThrottledSizeReadDefersEveryRefresh ==
    \A r \in TargetSize(World) :
        "size" \in r.w.thr =>
            \A w \in {Rest(r.w)}
                     \cup {Rest(o.w) : o \in {x \in waitForUpdateVMSSCapacity(Rest(r.w))
                                                : futures.update > 0}} :
                \A r2 \in TargetSize(w) : CallsTo(r2.w, "List") = <<>>

\* C12: a Nodes whose instance listing is throttled returns the instanceCache
\* it had and no error, and the next Nodes, called before any time has passed,
\* lists no instances, whether or not len(instanceCache) is curSize.
ThrottledNodesDefersRefresh ==
    \A r \in Nodes(World) :
        "instances" \in r.w.thr =>
            /\ r.err = "nil"
            /\ r.ret = scaleSet.instanceCache
            /\ \A r2 \in Nodes(Rest(r.w)) : CallsTo(r2.w, "ListVMs") = <<>>

\* The states a waitForUpdateVMSSCapacity whose wait failed can leave when the
\* goroutine of the caller reads the size, or does nothing, between the two
\* critical sections of invalidateStatusCacheWithLock.
FailedResizeObserved(w) ==
    LET w1 == resetLastSizeRefresh([Call(w, "WaitForCreateOrUpdate", <<>>) EXCEPT
                                        !.fut.update = @ - 1])
    IN  {resetLastRefresh(w2) : w2 \in {w1} \cup {Rest(r.w) : r \in TargetSize(Rest(w1))}}

\* C13: when the wait of an issued resize has failed and
\* waitForUpdateVMSSCapacity has run, the next TargetSize reads neither
\* curSize nor the group cache: the first thing it does is call List.
FailedResizeForcesFreshList ==
    futures.update > 0 =>
        \A w \in FailedResizeObserved(World) :
            \A r \in TargetSize(Rest(w)) :
                /\ r.w.calls # <<>>
                /\ r.w.calls[1].api = "List"

\* C14: after a waiting goroutine whose wait failed, of a resize or of a
\* delete, the next TargetSize does not return the cached curSize: it calls
\* List.
FailedObserverInvalidatesSize ==
    /\ futures.update > 0 =>
           \A o \in waitForUpdateVMSSCapacity(World) :
               o.err # "nil" =>
                   \A r \in TargetSize(Rest(o.w)) : CallsTo(r.w, "List") # <<>>
    /\ futures.delete > 0 =>
           \A o \in waitForDeleteInstances(World) :
               o.err # "nil" =>
                   \A r \in TargetSize(Rest(o.w)) : CallsTo(r.w, "List") # <<>>

\* C15: while the goroutine waiting for an issued resize or delete has not
\* returned, SetScaleSetSize and DeleteInstances issue nothing: they call
\* neither CreateOrUpdateAsync nor DeleteInstancesAsync, and no second
\* mutation becomes outstanding.
OneMutationOutstanding ==
    futures.update + futures.delete > 0 =>
        \A r \in UNION {SetScaleSetSize(World, size) : size \in Sizes}
                 \cup UNION {DeleteInstances(World, instances) : instances \in Batches} :
            /\ CallsTo(r.w, "CreateOrUpdateAsync") = <<>>
            /\ CallsTo(r.w, "DeleteInstancesAsync") = <<>>
            /\ r.w.fut.update + r.w.fut.delete <= 1

\* The locks of the lock-ordering rule.
OrderedLocks == {"sizeMutex", "instanceMutex", "scaleSetStatusCache.mutex"}

\* The states any operation or waiting goroutine can leave when run in w.
AllOperations(w) ==
    Operations(w) \cup {o.w : o \in {x \in waitForUpdateVMSSCapacity(w) : w.fut.update > 0}}

\* C16: no operation holds two of sizeMutex, instanceMutex and the mutex of
\* the group cache at one time.
NeverTwoLocks ==
    \A w \in AllOperations(World) :
        \A pair \in w.order : ~(pair[1] \in OrderedLocks /\ pair[2] \in OrderedLocks)

\* C17: no backend call is made while the mutex of the group cache is held.
GroupCacheUnlockedDuringCalls ==
    \A w \in AllOperations(World) :
        \A call \in w.under : call[2] # "scaleSetStatusCache.mutex"

IdsOf(ids) == {ids[i] : i \in 1..Len(ids)}

\* The requests that name instances of this scale set, each once.
OwnBatches ==
    {batch \in Batches : /\ Cardinality(IdsOf(batch)) = Len(batch)
                         /\ \A i \in 1..Len(batch) : GetAsgForInstance(batch[i]) = Name}

\* C19: of two DeleteInstances calls, one straight after the other with the
\* delete of the first still in flight, the second submits to
\* DeleteInstancesAsync no id the first submitted, and curSize goes down by
\* one for each instance submitted, never by two.  The calls name
\* instances of this scale set, each once in a call.
NoOverlappingDeletes ==
    \A instances, again \in OwnBatches :
        \A r \in DeleteInstances(World, instances) :
            r.err = "nil" /\ r.ids # <<>> =>
                \A r2 \in DeleteInstances(Rest(r.w), again) :
                    r2.err = "nil" /\ CallsTo(r2.w, "DeleteInstancesAsync") # <<>> =>
                        /\ IdsOf(r.ids) \cap IdsOf(r2.ids) = {}
                        /\ r2.w.ss.curSize =
                               scaleSet.curSize - Cardinality(IdsOf(r.ids) \cup IdsOf(r2.ids))

\* C20: always, every operation and every waiting goroutine reads and writes curSize
\* and lastSizeRefresh with sizeMutex held: the size reads, the update of
\* SetScaleSetSize, the decrement of DeleteInstances and the invalidation by
\* waitForUpdateVMSSCapacity.
SizeFieldsUnderSizeMutex ==
    [](\A w \in AllOperations(World) \cup FailedResizeObserved(World) :
           /\ w.unguarded = {}
           /\ w.held = {})

\* A state in which a resize, a delete and the invalidation after a failed
\* resize each write curSize or lastSizeRefresh.
SizeFieldsUnderSizeMutexWitness ==
    /\ futures.update > 0
    /\ SizeFresh
    /\ \E o \in waitForUpdateVMSSCapacity(World) :
           o.err # "nil" /\ o.w.ss.lastSizeRefresh # scaleSet.lastSizeRefresh
    /\ \E size \in Sizes :
           \E r \in SetScaleSetSize(World, size) :
               r.err = "nil" /\ r.w.ss.curSize # scaleSet.curSize
    /\ \E instances \in Batches :
           \E r \in DeleteInstances(World, instances) :
               r.err = "nil" /\ r.w.ss.curSize # scaleSet.curSize

\* The states SetScaleSetSize, IncreaseSize and DeleteInstances leave when
\* called in w and the backend accepts the mutation.
Mutated(w) ==
    {Rest(r.w) : r \in {x \in UNION {SetScaleSetSize(w, size) : size \in Sizes} :
                            x.err = "nil" /\ CallsTo(x.w, "CreateOrUpdateAsync") # <<>>}}
    \cup {Rest(r.w) : r \in {x \in UNION {IncreaseSize(w, delta) : delta \in Deltas} :
                                 x.err = "nil" /\ CallsTo(x.w, "CreateOrUpdateAsync") # <<>>}}
    \cup {Rest(r.w) : r \in {x \in UNION {DeleteInstances(w, instances) : instances \in OwnBatches} :
                                 x.err = "nil" /\ CallsTo(x.w, "DeleteInstancesAsync") # <<>>}}

\* C21: after one accepted mutation of the capacity, or two in a row, the next
\* Nodes does not return the instanceCache of before: it lists the instances,
\* unless its size read fails.
MutationsInvalidateInstanceCache ==
    \A w \in Mutated(World) \cup UNION {Mutated(w1) : w1 \in Mutated(World)} :
        \A r \in Nodes(w) :
            \/ CallsTo(r.w, "ListVMs") # <<>>
            \/ r.err # "nil"

\* C22: a size refresh that succeeds without throttling sets curSize to the
\* capacity of the scale set's descriptor and lastSizeRefresh to now, and if
\* that capacity is not the curSize of before it leaves the instance cache
\* outdated: the next Nodes lists the instances.
SizeRefreshStoresCapacity == [](
    \A r \in TargetSize(World) :
        ~SizeFresh /\ r.err = "nil" /\ "size" \notin r.w.thr =>
            /\ Name \in DOMAIN r.w.cache.scaleSets
            /\ r.ret = r.w.cache.scaleSets[Name]
            /\ r.w.ss.curSize = r.ret
            /\ r.w.ss.lastSizeRefresh = Now
            /\ r.ret # scaleSet.curSize =>
                   /\ ~After(Add(r.w.ss.lastInstanceRefresh, vmssInstancesRefreshPeriod), Now)
                   /\ \A r2 \in Nodes(Rest(r.w)) : CallsTo(r2.w, "ListVMs") # <<>>
            /\ r.ret = scaleSet.curSize =>
                   r.w.ss.lastInstanceRefresh = scaleSet.lastInstanceRefresh)

\* A size refresh that finds a capacity other than curSize while the instance
\* cache is fresh and as long as the new capacity.
SizeRefreshStoresCapacityWitness ==
    /\ observed
    /\ ~SizeFresh
    /\ After(Add(scaleSet.lastInstanceRefresh, vmssInstancesRefreshPeriod), Now)
    /\ \E r \in TargetSize(World) :
           /\ r.err = "nil"
           /\ "size" \notin r.w.thr
           /\ r.ret # scaleSet.curSize
           /\ r.ret = Len(scaleSet.instanceCache)

\* The outcome of a Nodes whose size read succeeded.
SizeWasRead(r) == r.err = "nil" \/ CallsTo(r.w, "ListVMs") # <<>>

\* C23: a Nodes that has read the size returns the instanceCache without
\* listing the instances if and only if the cache is as long as the size read
\* and less than vmssInstancesRefreshPeriod has passed since
\* lastInstanceRefresh, a size refresh that found another capacity having
\* outdated it; otherwise it lists the instances, and when the listing
\* succeeds the rebuilt list is the instanceCache and what it returns, and
\* lastInstanceRefresh is now.
NodesServesValidCacheOnly == [](
    \A r \in Nodes(World) :
        SizeWasRead(r) =>
            LET valid == /\ Len(scaleSet.instanceCache) = r.w.ss.curSize
                         /\ After(Add(scaleSet.lastInstanceRefresh, vmssInstancesRefreshPeriod), Now)
                         /\ r.w.ss.curSize = scaleSet.curSize
            IN  /\ valid <=> CallsTo(r.w, "ListVMs") = <<>>
                /\ valid =>
                       /\ r.err = "nil"
                       /\ r.ret = scaleSet.instanceCache
                       /\ r.w.ss.instanceCache = scaleSet.instanceCache
                       /\ r.w.ss.lastInstanceRefresh = scaleSet.lastInstanceRefresh
                /\ ~valid /\ r.err = "nil" /\ "instances" \notin r.w.thr =>
                       /\ Len(CallsTo(r.w, "ListVMs")) = 1
                       /\ r.ret \in {buildInstanceCache(vms.ret) :
                                        vms \in {x \in VMListResponses : x.err = "nil"}}
                       /\ r.w.ss.instanceCache = r.ret
                       /\ r.w.ss.lastInstanceRefresh = Now)

\* Nodes called with a filled and valid instance cache, and a listing that
\* would give another list.
NodesServesValidCacheOnlyWitness ==
    /\ scaleSet.instanceCache # <<>>
    /\ \E r \in Nodes(World) : r.err = "nil" /\ r.w.calls = <<>> /\ r.ret = scaleSet.instanceCache
    /\ \E vms \in VMListResponses :
           vms.err = "nil" /\ buildInstanceCache(vms.ret) # scaleSet.instanceCache

\* The state the claim has for a VM's provisioning state.
StateOfVM(vm) ==
    CASE vm.ProvisioningState = "Deleting" -> "InstanceDeleting"
      [] vm.ProvisioningState = "Creating" -> "InstanceCreating"
      [] OTHER -> "InstanceRunning"

\* C24: the instance cache rebuilt from a VM list has, in the order of the
\* list, one instance for each VM whose ID is not empty and no other, with the
\* state Deleting for a VM that is Deleting, Creating for one that is
\* Creating, and Running for one in any other provisioning state or none.
InstanceCacheIsRebuilt ==
    LET kept == SelectSeq(listed, LAMBDA vm : Len(vm.ID) # 0) IN
    /\ Len(scaleSet.instanceCache) = Len(kept)
    /\ \A i \in 1..Len(kept) :
           /\ scaleSet.instanceCache[i].Id
                  = <<"azure://">> \o convertResourceGroupNameToLower(kept[i].ID).ret
           /\ scaleSet.instanceCache[i].Status = StateOfVM(kept[i])

\* The outcomes of the operations that read the size, called in w, to which
\* the size read returned no size.
SizeReadFailed(w) ==
    {r \in TargetSize(w) : r.err # "nil"}
    \cup {[w |-> r.w, err |-> r.err] :
              r \in {x \in UNION {IncreaseSize(w, delta) : delta \in Deltas \ (-1..0)} :
                         x.err # "nil" /\ x.seen = <<>>}}
    \cup {[w |-> r.w, err |-> r.err] :
              r \in {x \in UNION {DeleteNodes(w, nodes) : nodes \in Batches} :
                         x.err # "nil" /\ x.seen = <<>>}}
    \cup UNION {{r \in DecreaseTargetSize(w, delta) : r.err # "nil"} : delta \in Deltas}
    \cup {[w |-> r.w, err |-> r.err] :
              r \in {x \in Nodes(w) : x.err # "nil" /\ CallsTo(x.w, "ListVMs") = <<>>}}

\* C25: when the size refresh of getCurSize fails and is not throttled, each
\* of TargetSize, IncreaseSize, DeleteNodes, DecreaseTargetSize and Nodes
\* returns that error; the call has called List and nothing else, leaves no
\* mutation outstanding and curSize and lastSizeRefresh as they were; and the
\* next size read calls List again.
SizeReadErrorIsSurfaced == [](
    /\ \A g \in getCurSize(World) :
           g.err # "nil" =>
               /\ ~isAzureRequestsThrottled(g.err)
               /\ \E r \in TargetSize(World) : r.err = g.err
               /\ \A delta \in Deltas \ (-1..0) :
                      \E r \in IncreaseSize(World, delta) : r.err = g.err /\ r.seen = <<>>
               /\ \A nodes \in Batches :
                      \E r \in DeleteNodes(World, nodes) : r.err = g.err /\ r.seen = <<>>
               /\ \A delta \in Deltas :
                      \E r \in DecreaseTargetSize(World, delta) : r.err = g.err
               /\ \E r \in Nodes(World) : r.err = g.err /\ CallsTo(r.w, "ListVMs") = <<>>
    /\ \A r \in SizeReadFailed(World) :
           /\ ~SizeFresh
           /\ \E g \in getCurSize(World) : g.err = r.err
           /\ \A i \in 1..Len(r.w.calls) : r.w.calls[i].api = "List"
           /\ r.w.fut = futures
           /\ r.w.ss.curSize = scaleSet.curSize
           /\ r.w.ss.lastSizeRefresh = scaleSet.lastSizeRefresh
           /\ \A r2 \in TargetSize(Rest(r.w)) : CallsTo(r2.w, "List") # <<>>)

\* A size refresh fails with a size read from the backend before in curSize
\* and an instance in the cache.
SizeReadErrorIsSurfacedWitness ==
    /\ observed
    /\ scaleSet.curSize > minSize
    /\ scaleSet.instanceCache # <<>>
    /\ \E r \in SizeReadFailed(World) : r.err = "error" /\ CallsTo(r.w, "List") # <<>>

\* C26: a SetScaleSetSize or DeleteInstances whose mutation the backend
\* refuses returns the error, starts no waiting goroutine and leaves the
\* ScaleSet as it was, and the group cache too unless the call has refreshed
\* it with List.
RefusedMutationLeavesStateUntouched ==
    /\ \A size \in Sizes :
           \A r \in SetScaleSetSize(World, size) :
               CallsTo(r.w, "CreateOrUpdateAsync") # <<>> /\ r.err # "nil" =>
                   /\ r.w.fut = futures
                   /\ r.w.ss = scaleSet
                   /\ CallsTo(r.w, "List") = <<>> => r.w.cache = scaleSetStatusCache
    /\ \A instances \in Batches :
           \A r \in DeleteInstances(World, instances) :
               CallsTo(r.w, "DeleteInstancesAsync") # <<>> /\ r.err # "nil" => Untouched(r.w)

\* The mutexes of the process: sizeMutex and instanceMutex of each ScaleSet,
\* and the two every ScaleSet shares.
PerScaleSet == {"sizeMutex", "instanceMutex"}
Mutex(name, set) == IF name \in PerScaleSet THEN <<name, set>> ELSE <<name, 0>>
Mutexes ==
    {Mutex(name, set) :
         name \in {"sizeMutex", "instanceMutex", "scaleSetStatusCache.mutex", "vmssSizeMutex"},
         set \in 1..MaxScaleSets}

\* The pairs <<held, taken>> of mutexes of which some ScaleSet locks one while
\* holding the other, order being the pairs of one ScaleSet.
LockOrder(order) ==
    {<<Mutex(pair[1], set), Mutex(pair[2], set)>> : pair \in order, set \in 1..MaxScaleSets}

\* C27: always, the order in which the operations and waiting goroutines of
\* the ScaleSets lock the mutexes has no cycle, so no threads wait for one
\* another in a circle: among any mutexes there is one that is never held
\* while another of them is locked; and each operation returns holding none.
LockOrderIsAcyclic ==
    [](LET ends == AllOperations(World) \cup FailedResizeObserved(World)
           order == LockOrder(UNION {w.order : w \in ends})
       IN  /\ \A held \in (SUBSET Mutexes) \ {{}} :
                  \E mutex \in held : \A taken \in held : <<mutex, taken>> \notin order
           /\ \A w \in ends : w.held = {})

\* A state in which a size refresh locks the mutex of the group cache and
\* instanceMutex while it holds sizeMutex, and Nodes lists the instances
\* holding instanceMutex.
LockOrderIsAcyclicWitness ==
    /\ \E r \in TargetSize(World) :
           /\ <<"sizeMutex", "scaleSetStatusCache.mutex">> \in r.w.order
           /\ <<"sizeMutex", "instanceMutex">> \in r.w.order
    /\ \E r \in Nodes(World) : <<"ListVMs", "instanceMutex">> \in r.w.under
    /\ futures.update > 0

\* C28: after a DeleteInstances that has taken k > 0 off curSize, a TargetSize
\* that calls nothing, so that whatever descriptor it reads was fetched before
\* the delete, does not return the curSize of before the delete.
SizeRefreshKeepsDecrement ==
    \A instances \in OwnBatches :
        \A r \in DeleteInstances(World, instances) :
            r.err = "nil" /\ r.w.ss.curSize < scaleSet.curSize =>
                \A ticks \in 0..sizeRefreshPeriod :
                    \A r2 \in TargetSize(LaterBy(Rest(r.w), ticks)) :
                        r2.err = "nil" /\ r2.w.calls = <<>> /\ "size" \notin r2.w.thr =>
                            r2.ret # scaleSet.curSize

\* C29: a DeleteNodes of nodes of this scale set that succeeds, having read a
\* size of at least minSize, leaves curSize at least minSize and submits for
\* deletion no more instances than that size has above minSize.
DeleteNodesKeepsMin ==
    \A nodes \in OwnBatches :
        \A r \in DeleteNodes(World, nodes) :
            r.err = "nil" /\ r.seen # <<>> /\ r.seen[1] >= minSize =>
                /\ r.w.ss.curSize >= minSize
                /\ Len(r.ids) <= r.seen[1] - minSize

\* The states another thread can leave between the size read of IncreaseSize
\* and its SetScaleSetSize: nothing done, a size read, a DeleteInstances or a
\* resize, that of another IncreaseSize included.
Between(w) ==
    {w}
    \cup {Rest(r.w) : r \in TargetSize(w)}
    \cup UNION {{Rest(r.w) : r \in DeleteInstances(w, instances)} : instances \in OwnBatches}
    \cup UNION {{Rest(r.w) : r \in SetScaleSetSize(w, size)} : size \in 0..maxSize}

\* IncreaseSize with another thread running between its size read and its
\* SetScaleSetSize.  seen: the size it read; at: curSize when SetScaleSetSize
\* is called.
IncreaseSizeInterleaved(w, delta) ==
    IF delta <= 0
    THEN {}
    ELSE UNION {
           IF size.err # "nil" \/ size.ret = -1 \/ size.ret + delta > maxSize
           THEN {}
           ELSE UNION {{[w |-> r.w, err |-> r.err, seen |-> <<size.ret>>, at |-> w1.ss.curSize]
                        : r \in SetScaleSetSize(w1, size.ret + delta)}
                       : w1 \in Between(Rest(size.w))}
           : size \in getCurSize(w)}

\* C30: every capacity an IncreaseSize submits with CreateOrUpdateAsync is at
\* most maxSize and is the size the call read plus its delta, whether the
\* call runs alone or another thread reads the size, deletes instances or
\* resizes between its size read and its SetScaleSetSize.
IncreaseSizeSubmitsWithinMax == [](
    \A delta \in Deltas :
        /\ \A r \in IncreaseSize(World, delta) :
               \A i \in 1..Len(r.w.calls) :
                   r.w.calls[i].api = "CreateOrUpdateAsync" =>
                       /\ r.seen # <<>>
                       /\ r.w.calls[i].arg = r.seen[1] + delta
                       /\ r.w.calls[i].arg <= maxSize
        /\ \A r \in IncreaseSizeInterleaved(World, delta) :
               \A i \in 1..Len(r.w.calls) :
                   r.w.calls[i].api = "CreateOrUpdateAsync" =>
                       /\ r.w.calls[i].arg = r.seen[1] + delta
                       /\ r.w.calls[i].arg <= maxSize)

\* An IncreaseSize that submits maxSize, and one that submits after another
\* thread has changed curSize since its size read.
IncreaseSizeSubmitsWithinMaxWitness ==
    /\ observed
    /\ \E delta \in Deltas :
           \E r \in IncreaseSize(World, delta) :
               r.err = "nil" /\ CallsTo(r.w, "CreateOrUpdateAsync") # <<>>
                             /\ r.seen[1] + delta = maxSize
    /\ \E delta \in Deltas :
           \E r \in IncreaseSizeInterleaved(World, delta) :
               r.err = "nil" /\ CallsTo(r.w, "CreateOrUpdateAsync") # <<>> /\ r.at # r.seen[1]

====
